---------------------------- MODULE Spec2Model ----------------------------
(***************************************************************************)
(* Model of the job-description parser: JobDescriptionParser               *)
(* (job_parser.py) and the wrapper parse_job_description (parse_job.py).   *)
(*                                                                         *)
(* A Python str is modelled as the sequence of its code points, so that    *)
(* substring tests, regular-expression matching, lower(), title(),         *)
(* strip(), split() and the f-string formatting are computed character by  *)
(* character as the interpreter computes them.  Every string literal of    *)
(* the source is written as its code points, followed by its text.         *)
(***************************************************************************)
EXTENDS Integers, Sequences, FiniteSets, TLC

(***************************************************************************)
(* Characters and the str methods the parser uses.                         *)
(***************************************************************************)
Max(A) == CHOOSE x \in A : \A y \in A : y <= x
Min(A) == CHOOSE x \in A : \A y \in A : x <= y

\* 'A'..'Z', 'a'..'z', '0'..'9'
IsUpper(c) == c >= 65 /\ c <= 90
IsLower(c) == c >= 97 /\ c <= 122
IsDigit(c) == c >= 48 /\ c <= 57
IsLetter(c) == IsUpper(c) \/ IsLower(c)
\* \s of the re module and the characters str.strip() removes: space, \t, \n, \r
IsSpace(c) == c = 32 \/ c = 9 \/ c = 10 \/ c = 13
\* \n and \r, the complement of the class [^\n\r]
IsNewline(c) == c = 10 \/ c = 13
\* \w of the re module (letters, digits, '_'), which decides where \b holds
IsWord(c) == IsLetter(c) \/ IsDigit(c) \/ c = 95

ToLower(c) == IF IsUpper(c) THEN c + 32 ELSE c
ToUpper(c) == IF IsLower(c) THEN c - 32 ELSE c

\* str.lower()
lower(s) == [i \in 1..Len(s) |-> ToLower(s[i])]

\* str.title(): a letter is upper-cased when no letter precedes it, lower-cased otherwise
title(s) == [i \in 1..Len(s) |-> IF i = 1 \/ ~IsLetter(s[i - 1]) THEN ToUpper(s[i]) ELSE ToLower(s[i])]

\* s[first : last] when the set `keep` of positions is not empty
Between(s, keep) == IF keep = {} THEN <<>> ELSE SubSeq(s, Min(keep), Max(keep))

\* str.strip()
strip(s) == Between(s, {i \in 1..Len(s) : ~IsSpace(s[i])})

\* the substring test `sub in s`
In(sub, s) == \E i \in 0..(Len(s) - Len(sub)) : \A j \in 1..Len(sub) : s[i + j] = sub[j]

\* s[at : at + len(lit)] equals lit, ignoring case under re.IGNORECASE
LitAt(s, at, lit) ==
    /\ at >= 1
    /\ at + Len(lit) - 1 <= Len(s)
    /\ \A j \in 1..Len(lit) : ToLower(s[at + j - 1]) = ToLower(lit[j])

\* the classes [A-Z] and [a-z] as compiled with re.IGNORECASE: either case matches
\* [A-Z] as it would read were the pattern compiled without re.IGNORECASE
ClassUpperStrict(c) == IsUpper(c)

ClassUpperIC(c) == IsUpper(c) \/ IsLower(c)
ClassLowerIC(c) == IsLower(c) \/ IsUpper(c)

\* the character classes of the regular expressions, by name
InClass(cls, c) ==
    CASE cls = "\\s" -> IsSpace(c)
      [] cls = "\\d" -> IsDigit(c)
      [] cls = "[+\\-\\s]" -> c = 43 \/ c = 45 \/ IsSpace(c)
      [] cls = "[^\\n\\r]" -> ~IsNewline(c)
      [] cls = "[^\\n\\r,]" -> ~IsNewline(c) /\ c # 44
      [] cls = "[A-Z]" -> ClassUpperIC(c)
      [] cls = "[a-z]" -> ClassLowerIC(c)
      [] cls = "[.!?]" -> c = 46 \/ c = 33 \/ c = 63

\* length of the longest run of characters of the class `cls` starting at `at`
\* (what a greedy cls* consumes before any backtracking)
RECURSIVE RunLen(_, _, _)
RunLen(s, at, cls) ==
    IF at < 1 \/ at > Len(s) THEN 0
    ELSE IF ~InClass(cls, s[at]) THEN 0
    ELSE 1 + RunLen(s, at + 1, cls)

\* \b at the gap before position `at`: exactly one side is a word character
WordAt(s, at) == at >= 1 /\ at <= Len(s) /\ IsWord(s[at])
WordBoundary(s, at) == WordAt(s, at - 1) # WordAt(s, at)

\* sep.join(parts)
RECURSIVE join(_, _)
join(sep, parts) ==
    IF Len(parts) = 0 THEN <<>>
    ELSE IF Len(parts) = 1 THEN parts[1]
    ELSE parts[1] \o sep \o join(sep, Tail(parts))

\* the slice s[:n]
Prefix(s, n) == SubSeq(s, 1, IF Len(s) < n THEN Len(s) ELSE n)

\* int(x) for a string of decimal digits
RECURSIVE int(_)
int(x) == IF Len(x) = 0 THEN 0 ELSE 10 * int(SubSeq(x, 1, Len(x) - 1)) + (x[Len(x)] - 48)

\* str(n), the rendering of an int inside an f-string
RECURSIVE str(_)
str(n) == IF n < 10 THEN <<48 + n>> ELSE str(n \div 10) \o <<48 + (n % 10)>>

(***************************************************************************)
(* The tables JobDescriptionParser.__init__ sets up.                       *)
(***************************************************************************)
\* self.skill_patterns: each pattern is \b(?:alt1|alt2|...)\b; element k
\* holds the alternatives of pattern k in the order the pattern lists them
skill_patterns == <<
    <<
        <<80,121,116,104,111,110>>, (* Python *)
        <<74,97,118,97>>, (* Java *)
        <<74,97,118,97,83,99,114,105,112,116>>, (* JavaScript *)
        <<84,121,112,101,83,99,114,105,112,116>>, (* TypeScript *)
        <<67,43,43>>, (* C++ *)
        <<67,35>>, (* C# *)
        <<71,111>>, (* Go *)
        <<82,117,115,116>>, (* Rust *)
        <<82,117,98,121>>, (* Ruby *)
        <<80,72,80>>, (* PHP *)
        <<83,119,105,102,116>>, (* Swift *)
        <<75,111,116,108,105,110>> (* Kotlin *)
    >>,
    <<
        <<82,101,97,99,116>>, (* React *)
        <<65,110,103,117,108,97,114>>, (* Angular *)
        <<86,117,101>>, (* Vue *)
        <<78,111,100,101,46,106,115>>, (* Node.js *)
        <<69,120,112,114,101,115,115>>, (* Express *)
        <<68,106,97,110,103,111>>, (* Django *)
        <<70,108,97,115,107>>, (* Flask *)
        <<83,112,114,105,110,103>>, (* Spring *)
        <<76,97,114,97,118,101,108>> (* Laravel *)
    >>,
    <<
        <<65,87,83>>, (* AWS *)
        <<65,122,117,114,101>>, (* Azure *)
        <<71,67,80>>, (* GCP *)
        <<68,111,99,107,101,114>>, (* Docker *)
        <<75,117,98,101,114,110,101,116,101,115>>, (* Kubernetes *)
        <<71,105,116>>, (* Git *)
        <<74,101,110,107,105,110,115>>, (* Jenkins *)
        <<67,73,47,67,68>> (* CI/CD *)
    >>,
    <<
        <<83,81,76>>, (* SQL *)
        <<77,111,110,103,111,68,66>>, (* MongoDB *)
        <<80,111,115,116,103,114,101,83,81,76>>, (* PostgreSQL *)
        <<77,121,83,81,76>>, (* MySQL *)
        <<82,101,100,105,115>>, (* Redis *)
        <<69,108,97,115,116,105,99,115,101,97,114,99,104>> (* Elasticsearch *)
    >>,
    <<
        <<77,97,99,104,105,110,101,32,76,101,97,114,110,105,110,103>>, (* Machine Learning *)
        <<77,76>>, (* ML *)
        <<65,73>>, (* AI *)
        <<68,97,116,97,32,83,99,105,101,110,99,101>>, (* Data Science *)
        <<65,110,97,108,121,116,105,99,115>>, (* Analytics *)
        <<83,116,97,116,105,115,116,105,99,115>> (* Statistics *)
    >>,
    <<
        <<65,103,105,108,101>>, (* Agile *)
        <<83,99,114,117,109>>, (* Scrum *)
        <<68,101,118,79,112,115>>, (* DevOps *)
        <<77,105,99,114,111,115,101,114,118,105,99,101,115>>, (* Microservices *)
        <<82,69,83,84>>, (* REST *)
        <<65,80,73>>, (* API *)
        <<71,114,97,112,104,81,76>> (* GraphQL *)
    >> >>

\* self.seniority_keywords, in the insertion order a dict iterates in
seniority_keywords == <<
    [level |-> "junior", keywords |-> <<
        <<106,117,110,105,111,114>>, (* junior *)
        <<101,110,116,114,121>>, (* entry *)
        <<97,115,115,111,99,105,97,116,101>>, (* associate *)
        <<103,114,97,100,117,97,116,101>>, (* graduate *)
        <<105,110,116,101,114,110>> (* intern *)
    >>],
    [level |-> "mid", keywords |-> <<
        <<109,105,100>>, (* mid *)
        <<105,110,116,101,114,109,101,100,105,97,116,101>>, (* intermediate *)
        <<114,101,103,117,108,97,114>>, (* regular *)
        <<115,111,102,116,119,97,114,101,32,101,110,103,105,110,101,101,114>>, (* software engineer *)
        <<100,101,118,101,108,111,112,101,114>> (* developer *)
    >>],
    [level |-> "senior", keywords |-> <<
        <<115,101,110,105,111,114>>, (* senior *)
        <<115,114>>, (* sr *)
        <<108,101,97,100>>, (* lead *)
        <<112,114,105,110,99,105,112,97,108>>, (* principal *)
        <<115,116,97,102,102>>, (* staff *)
        <<101,120,112,101,114,116>> (* expert *)
    >>],
    [level |-> "manager", keywords |-> <<
        <<109,97,110,97,103,101,114>>, (* manager *)
        <<100,105,114,101,99,116,111,114>>, (* director *)
        <<104,101,97,100>>, (* head *)
        <<99,104,105,101,102>>, (* chief *)
        <<118,112>>, (* vp *)
        <<118,105,99,101,32,112,114,101,115,105,100,101,110,116>> (* vice president *)
    >>] >>

\* the local list skill_keywords of extract_skills
skill_keywords == <<
    <<112,121,116,104,111,110>>, (* python *)
    <<106,97,118,97>>, (* java *)
    <<106,97,118,97,115,99,114,105,112,116>>, (* javascript *)
    <<116,121,112,101,115,99,114,105,112,116>>, (* typescript *)
    <<114,101,97,99,116>>, (* react *)
    <<97,110,103,117,108,97,114>>, (* angular *)
    <<118,117,101>>, (* vue *)
    <<110,111,100,101,46,106,115>>, (* node.js *)
    <<100,106,97,110,103,111>>, (* django *)
    <<102,108,97,115,107>>, (* flask *)
    <<115,112,114,105,110,103>>, (* spring *)
    <<97,119,115>>, (* aws *)
    <<97,122,117,114,101>>, (* azure *)
    <<100,111,99,107,101,114>>, (* docker *)
    <<107,117,98,101,114,110,101,116,101,115>>, (* kubernetes *)
    <<103,105,116>>, (* git *)
    <<115,113,108>>, (* sql *)
    <<109,111,110,103,111,100,98>>, (* mongodb *)
    <<112,111,115,116,103,114,101,115,113,108>>, (* postgresql *)
    <<109,97,99,104,105,110,101,32,108,101,97,114,110,105,110,103>>, (* machine learning *)
    <<100,97,116,97,32,115,99,105,101,110,99,101>>, (* data science *)
    <<97,103,105,108,101>>, (* agile *)
    <<115,99,114,117,109>>, (* scrum *)
    <<100,101,118,111,112,115>>, (* devops *)
    <<114,101,115,116,32,97,112,105>>, (* rest api *)
    <<109,105,99,114,111,115,101,114,118,105,99,101,115>> (* microservices *) >>

(***************************************************************************)
(* extract_skills                                                          *)
(***************************************************************************)
\* the alternatives of `alts` with which \b(?:...)\b matches at position
\* `at` under re.IGNORECASE
AltsAt(text, alts, at) ==
    IF ~WordBoundary(text, at) THEN {}
    ELSE {a \in 1..Len(alts) : LitAt(text, at, alts[a]) /\ WordBoundary(text, at + Len(alts[a]))}

\* re.findall of the pattern with alternatives `alts`, scanning from `from`:
\* the matched texts, left to right and without overlap; the alternation takes
\* the first alternative that lets the whole pattern match.  (Returned as the
\* set that skills.update adds them to.)
RECURSIVE findall_skill(_, _, _)
\* the first match, at position i, and the matches after it
MatchAndRest(text, alts, i, n) == {SubSeq(text, i, i + n - 1)} \cup findall_skill(text, alts, i + n)
FirstMatch(text, alts, i) == MatchAndRest(text, alts, i, Len(alts[Min(AltsAt(text, alts, i))]))
MatchesFrom(text, alts, starts) == IF starts = {} THEN {} ELSE FirstMatch(text, alts, Min(starts))
findall_skill(text, alts, from) ==
    MatchesFrom(text, alts, {i \in from..Len(text) : AltsAt(text, alts, i) # {}})

\* the matches of all of self.skill_patterns
PatternSkills(text, patterns) == UNION {findall_skill(text, patterns[p], 1) : p \in 1..Len(patterns)}

\* the keywords found by `skill in text_lower`, each as skill.title()
KeywordSkills(text_lower, keywords) ==
    {title(keywords[k]) : k \in {k \in 1..Len(keywords) : In(keywords[k], text_lower)}}

\* the set `skills` when extract_skills reaches its return statement
skills_set(text) == PatternSkills(text, skill_patterns) \cup KeywordSkills(lower(text), skill_keywords)

\* a < b for two str (code point order); used only to enumerate a set's elements
StrLess(a, b) ==
    \E k \in 1..(Len(a) + 1) :
        /\ \A j \in 1..(k - 1) : j <= Len(b) /\ a[j] = b[j]
        /\ IF k > Len(a) THEN Len(b) >= k
           ELSE k <= Len(b) /\ a[k] < b[k]

Least(A) == CHOOSE x \in A : \A y \in A : y = x \/ StrLess(x, y)

RECURSIVE Sorted(_)
SortedFrom(A, m) == <<m>> \o Sorted(A \ {m})
Sorted(A) == IF A = {} THEN <<>> ELSE SortedFrom(A, Least(A))

\* list(skills): a set of str iterates in an order fixed by the string hashes,
\* which the interpreter salts per process (hash randomisation).  The process's
\* salt `seed` selects the iteration order: the seed-th arrangement of the elements.
RECURSIVE Arrange(_, _)
ArrangeAt(sorted, seed, n, k) ==
    <<sorted[k]>> \o Arrange(SubSeq(sorted, 1, k - 1) \o SubSeq(sorted, k + 1, n), seed \div n)
Arrange(sorted, seed) ==
    IF Len(sorted) = 0 THEN <<>>
    ELSE ArrangeAt(sorted, seed, Len(sorted), (seed % Len(sorted)) + 1)

list_of_set(A, seed) == Arrange(Sorted(A), seed)

extract_skills(text, seed) == list_of_set(skills_set(text), seed)

(***************************************************************************)
(* extract_seniority_level                                                 *)
(***************************************************************************)
\* `any keyword of the list occurs in text_lower`
AnyKeywordIn(keywords, text_lower) == \E j \in 1..Len(keywords) : In(keywords[j], text_lower)

\* a loop that lets a later entry of the table override an earlier one
LastLevel(table, hit) == IF hit = {} THEN "mid" ELSE table[Max(hit)].level
seniority_last(table, text_lower, k) ==
    LastLevel(table, {j \in k..Len(table) : AnyKeywordIn(table[j].keywords, text_lower)})

\* the loop over self.seniority_keywords.items() from entry k on
RECURSIVE seniority_from(_, _, _)
seniority_from(table, text_lower, k) ==
    IF k > Len(table) THEN "mid"
    ELSE IF AnyKeywordIn(table[k].keywords, text_lower) THEN table[k].level
    ELSE seniority_from(table, text_lower, k + 1)

extract_seniority_level(text) == seniority_from(seniority_keywords, lower(text), 1)

(***************************************************************************)
(* extract_years_of_experience                                             *)
(***************************************************************************)
NoMatch == [found |-> FALSE]

\* the positions years? can end at when it starts at e (re.IGNORECASE)
YearsEnds(s, e) ==
    IF ~LitAt(s, e, <<121,101,97,114>> (* year *)) THEN {}
    ELSE IF LitAt(s, e + 4, <<115>> (* s *)) THEN {e + 4, e + 5} ELSE {e + 4}

\* \s*years? from position d on: the positions it can end at
AfterYears(s, d) == YearsEnds(s, d + RunLen(s, d, "\\s"))

\* (?:of\s*)?experience at position g
OfExperienceAt(s, g) ==
    \/ LitAt(s, g, <<101,120,112,101,114,105,101,110,99,101>> (* experience *))
    \/ LitAt(s, g, <<111,102>> (* of *)) /\ LitAt(s, g + 2 + RunLen(s, g + 2, "\\s"), <<101,120,112,101,114,105,101,110,99,101>> (* experience *))

\* \s*(?:of\s*)?experience at position f
ExperienceAt(s, f) == OfExperienceAt(s, f + RunLen(s, f, "\\s"))

\* where [\+\-\s]* can end when it starts at p
AfterSigns(s, p) == p..(p + RunLen(s, p, "[+\\-\\s]"))

\* where (?:to|-)? can end when it starts at a position of A
AfterTo(s, A) ==
    A \cup {a + 2 : a \in {a \in A : LitAt(s, a, <<116,111>> (* to *))}}
      \cup {a + 1 : a \in {a \in A : LitAt(s, a, <<45>> (* - *))}}

\* where \s* can end when it starts at a position of B
AfterSpaces(s, B) == UNION {b..(b + RunLen(s, b, "\\s")) : b \in B}

\* (\d+)? from a position c of C: <<c, m>> for a group of m digits, m = 0 when it is skipped
SecondGroups(s, C) ==
    {<<c, 0>> : c \in C} \cup UNION {{<<c, m>> : m \in 1..RunLen(s, c, "\\d")} : c \in C}

\* the second groups after which \s*years?\s*(?:of\s*)?experience matches
Completed(s, D) == {d \in D : \E f \in AfterYears(s, d[1] + d[2]) : ExperienceAt(s, f)}

\* the group pairs <<g1, g2>> of the successful paths, g1 being s[i : p]
RangeGroups(s, i, p, ok) == {<<SubSeq(s, i, p - 1), SubSeq(s, d[1], d[1] + d[2] - 1)>> : d \in ok}

\* the pattern (\d+)[\+\-\s]*(?:to|-)?\s*(\d+)?\s*years?\s*(?:of\s*)?experience
\* tried at position i, (\d+) having taken the r digits that start there.
\* (\d+) takes the whole digit run first, and a shorter first group cannot
\* succeed where the whole run fails: what it leaves must be taken by
\* (\d+)?, which ends where the run ends.
RangeAfter(s, i, r) ==
    IF r = 0 THEN {}
    ELSE RangeGroups(s, i, i + r, Completed(s, SecondGroups(s, AfterSpaces(s, AfterTo(s, AfterSigns(s, i + r))))))

RangeAt(s, i) == RangeAfter(s, i, RunLen(s, i, "\\d"))

\* (\d+)\+\s*years?  at position i, (\d+) having taken r digits: the group, or <<>>
PlusAfter(s, i, r) ==
    IF r > 0 /\ LitAt(s, i + r, <<43>> (* + *)) /\ AfterYears(s, i + r + 1) # {}
    THEN SubSeq(s, i, i + r - 1) ELSE <<>>

PlusAt(s, i) == PlusAfter(s, i, RunLen(s, i, "\\d"))

\* (\d+)\s*years?  at position q, (\d+) having taken r digits: the group, or <<>>
NumberYears(s, q, r) ==
    IF r > 0 /\ AfterYears(s, q + r) # {} THEN SubSeq(s, q, q + r - 1) ELSE <<>>

\* (\d+)\s*years?  at position q
NumberYearsAt(s, q) == NumberYears(s, q, RunLen(s, q, "\\d"))

\* \s*(\d+)\s*years?  at position p
SpaceNumberYearsAt(s, p) == NumberYearsAt(s, p + RunLen(s, p, "\\s"))

\* minimum\s*(\d+)\s*years?  at position i
MinimumAt(s, i) ==
    IF LitAt(s, i, <<109,105,110,105,109,117,109>> (* minimum *)) THEN SpaceNumberYearsAt(s, i + 7) ELSE <<>>

\* least\s*(\d+)\s*years?  at position q
LeastAt(s, q) == IF LitAt(s, q, <<108,101,97,115,116>> (* least *)) THEN SpaceNumberYearsAt(s, q + 5) ELSE <<>>

\* at\s*least\s*(\d+)\s*years?  at position i
AtLeastAt(s, i) ==
    IF LitAt(s, i, <<97,116>> (* at *)) THEN LeastAt(s, i + 2 + RunLen(s, i + 2, "\\s")) ELSE <<>>

\* matches[0] of re.findall for a pattern matching at the positions `at`:
\* the groups of the leftmost match
FirstRange(text, at) ==
    IF at = {} THEN NoMatch
    ELSE [found |-> TRUE, tuple |-> TRUE, groups |-> CHOOSE g \in RangeAt(text, Min(at)) : TRUE]
FirstPlus(text, at) ==
    IF at = {} THEN NoMatch ELSE [found |-> TRUE, tuple |-> FALSE, groups |-> <<PlusAt(text, Min(at))>>]
FirstMinimum(text, at) ==
    IF at = {} THEN NoMatch ELSE [found |-> TRUE, tuple |-> FALSE, groups |-> <<MinimumAt(text, Min(at))>>]
FirstAtLeast(text, at) ==
    IF at = {} THEN NoMatch ELSE [found |-> TRUE, tuple |-> FALSE, groups |-> <<AtLeastAt(text, Min(at))>>]

\* the list of patterns with its first two entries exchanged
experience_findall_plus_first(k, text) ==
    CASE k = 1 -> FirstPlus(text, {i \in 1..Len(text) : PlusAt(text, i) # <<>>})
      [] k = 2 -> FirstRange(text, {i \in 1..Len(text) : RangeAt(text, i) # {}})
      [] k = 3 -> FirstMinimum(text, {i \in 1..Len(text) : MinimumAt(text, i) # <<>>})
      [] k = 4 -> FirstAtLeast(text, {i \in 1..Len(text) : AtLeastAt(text, i) # <<>>})

\* matches[0] of re.findall(self.experience_patterns[k], text, re.IGNORECASE):
\* a tuple of the two groups for the first pattern (two groups), the one
\* group as a str for the others
experience_findall(k, text) ==
    CASE k = 1 -> FirstRange(text, {i \in 1..Len(text) : RangeAt(text, i) # {}})
      [] k = 2 -> FirstPlus(text, {i \in 1..Len(text) : PlusAt(text, i) # <<>>})
      [] k = 3 -> FirstMinimum(text, {i \in 1..Len(text) : MinimumAt(text, i) # <<>>})
      [] k = 4 -> FirstAtLeast(text, {i \in 1..Len(text) : AtLeastAt(text, i) # <<>>})

NumExperiencePatterns == 4

\* str.isdigit()
isdigit(x) == Len(x) > 0 /\ \A j \in 1..Len(x) : IsDigit(x[j])

\* [int(x) for x in groups if x.isdigit()]
RECURSIVE digit_groups(_)
digit_groups(groups) ==
    IF Len(groups) = 0 THEN <<>>
    ELSE (IF isdigit(groups[1]) THEN <<int(groups[1])>> ELSE <<>>) \o digit_groups(Tail(groups))

\* the loop over self.experience_patterns from pattern k on
RECURSIVE years_from(_, _)

\* the branch `if isinstance(matches[0], tuple)` with years = digit_groups(...):
\* when neither length applies the loop goes on with the next pattern
years_of_tuple(text, k, years) ==
    IF Len(years) = 2 THEN str(years[1]) \o <<45>> (* - *) \o str(years[2]) \o <<32,121,101,97,114,115>> (*  years *)
    ELSE IF Len(years) = 1 THEN str(years[1]) \o <<43,32,121,101,97,114,115>> (* + years *)
    ELSE years_from(text, k + 1)

\* the body of the loop for pattern k, `m` being what findall gave
years_of_match(text, k, m) ==
    IF ~m.found THEN years_from(text, k + 1)
    ELSE IF m.tuple THEN years_of_tuple(text, k, digit_groups(m.groups))
    ELSE m.groups[1] \o <<43,32,121,101,97,114,115>> (* + years *)

years_from(text, k) ==
    IF k > NumExperiencePatterns THEN <<78,111,116,32,115,112,101,99,105,102,105,101,100>> (* Not specified *)
    ELSE years_of_match(text, k, experience_findall(k, text))

extract_years_of_experience(text) == years_from(text, 1)

(***************************************************************************)
(* extract_location                                                        *)
(***************************************************************************)
\* the group (cls+) started at the last of the positions K, as far as it runs;
\* <<>> when K is empty
GroupFromLast(s, K, cls) ==
    IF K = {} THEN <<>> ELSE SubSeq(s, Max(K), Max(K) + RunLen(s, Max(K), cls) - 1)

\* \s*(cls+) at position p, \s* spanning w characters at most: the greedy
\* \s* gives characters back until the group can start
GroupWithin(s, p, w, cls) ==
    GroupFromLast(s, {q \in p..(p + w) : q <= Len(s) /\ InClass(cls, s[q])}, cls)

\* \s*(cls+) at position p: the group, or <<>> when there is no match
GroupAfterSpace(s, p, cls) == GroupWithin(s, p, RunLen(s, p, "\\s"), cls)

\* :?\s*([^\n\r]+) at position q, `withColon` being the group found after
\* a colon: the optional colon is taken first and given back when the
\* rest cannot match after it
LabelGroup(s, q, withColon) ==
    IF withColon # <<>> THEN withColon ELSE GroupAfterSpace(s, q, "[^\\n\\r]")

\* :?\s*([^\n\r]+) at position q
AfterLabel(s, q) ==
    LabelGroup(s, q, IF LitAt(s, q, <<58>> (* : *)) THEN GroupAfterSpace(s, q + 1, "[^\\n\\r]") ELSE <<>>)

\* location:?\s*([^\n\r]+) at position i: group 1, or <<>>
LocationLabelAt(s, i) ==
    IF LitAt(s, i, <<108,111,99,97,116,105,111,110>> (* location *)) THEN AfterLabel(s, i + 8) ELSE <<>>

\* based in\s*([^\n\r,]+) at position i: group 1, or <<>>
BasedInAt(s, i) ==
    IF LitAt(s, i, <<98,97,115,101,100,32,105,110>> (* based in *)) THEN GroupAfterSpace(s, i + 8, "[^\\n\\r,]") ELSE <<>>

\* [A-Z]{2} at position p: where it ends, 0 when it does not match
TwoUpperEnd(s, p) ==
    IF p + 1 <= Len(s) /\ InClass("[A-Z]", s[p]) /\ InClass("[A-Z]", s[p + 1]) THEN p + 1 ELSE 0

\* \s*[A-Z]{2} at position p
SpaceTwoUpperEnd(s, p) == TwoUpperEnd(s, p + RunLen(s, p, "\\s"))

\* ,?\s*[A-Z]{2} at position p: after the comma when there is one (without
\* it \s*[A-Z]{2} would have to start at the comma)
CityStateEnd(s, p) ==
    IF LitAt(s, p, <<44>> (* , *)) THEN SpaceTwoUpperEnd(s, p + 1) ELSE SpaceTwoUpperEnd(s, p)

\* the match for the longest [a-z]+ , of a length in `ok`, that lets the rest match
CityStateGroup(s, i, ok) ==
    IF ok = {} THEN <<>> ELSE SubSeq(s, i, CityStateEnd(s, i + 1 + Max(ok)))

\* [a-z]+,?\s*[A-Z]{2} after the first letter at i, r letters following it:
\* [a-z]+ takes the longest run and gives characters back one at a time
CityStateAfter(s, i, r) == CityStateGroup(s, i, {n \in 1..r : CityStateEnd(s, i + 1 + n) # 0})

\* ([A-Z][a-z]+,?\s*[A-Z]{2}) at position i: group 1, or <<>>
CityStateAt(s, i) ==
    IF i <= Len(s) /\ InClass("[A-Z]", s[i]) THEN CityStateAfter(s, i, RunLen(s, i + 1, "[a-z]")) ELSE <<>>

\* re.search for a pattern matching at the positions `at`: the leftmost match,
\* with the number of groups of the pattern
SearchLabel(text, at) ==
    IF at = {} THEN NoMatch ELSE [found |-> TRUE, ngroups |-> 1, group1 |-> LocationLabelAt(text, Min(at))]
SearchBasedIn(text, at) ==
    IF at = {} THEN NoMatch ELSE [found |-> TRUE, ngroups |-> 1, group1 |-> BasedInAt(text, Min(at))]
SearchCityState(text, at) ==
    IF at = {} THEN NoMatch ELSE [found |-> TRUE, ngroups |-> 1, group1 |-> CityStateAt(text, Min(at))]
SearchWord(text, word) ==
    IF \E i \in 1..Len(text) : LitAt(text, i, word) THEN [found |-> TRUE, ngroups |-> 0] ELSE NoMatch

\* re.search(location_patterns[k], text, re.IGNORECASE)
location_search(k, text) ==
    CASE k = 1 -> SearchLabel(text, {i \in 1..Len(text) : LocationLabelAt(text, i) # <<>>})
      [] k = 2 -> SearchBasedIn(text, {i \in 1..Len(text) : BasedInAt(text, i) # <<>>})
      [] k = 3 -> SearchCityState(text, {i \in 1..Len(text) : CityStateAt(text, i) # <<>>})
      [] k = 4 -> SearchWord(text, <<114,101,109,111,116,101>> (* remote *))
      [] k = 5 -> SearchWord(text, <<104,121,98,114,105,100>> (* hybrid *))
      [] k = 6 -> SearchWord(text, <<111,110,45,115,105,116,101>> (* on-site *))

NumLocationPatterns == 6

\* the loop over location_patterns from pattern k on
RECURSIVE location_from(_, _)

\* the body of the loop for pattern k.  matches.group(1) on a pattern without
\* a group raises IndexError ("no such group"); the groups of the first three
\* patterns are never empty, so group(0) is not reached.
location_of_match(text, k, matches) ==
    IF ~matches.found THEN location_from(text, k + 1)
    ELSE IF matches.ngroups < 1 THEN [raised |-> "IndexError"]
    ELSE [value |-> strip(matches.group1)]

location_from(text, k) ==
    IF k > NumLocationPatterns THEN [value |-> <<78,111,116,32,115,112,101,99,105,102,105,101,100>> (* Not specified *)]
    ELSE location_of_match(text, k, location_search(k, text))

extract_location(text) == location_from(text, 1)

(***************************************************************************)
(* extract_job_title                                                       *)
(***************************************************************************)
\* str.split(sep) for a one-character separator
RECURSIVE split(_, _)
SplitAt(s, sep, at) ==
    IF at = {} THEN <<s>>
    ELSE <<SubSeq(s, 1, Min(at) - 1)>> \o split(SubSeq(s, Min(at) + 1, Len(s)), sep)
split(s, sep) == SplitAt(s, sep, {i \in 1..Len(s) : s[i] = sep})

title_keywords == <<
    <<101,110,103,105,110,101,101,114>> (* engineer *),
    <<100,101,118,101,108,111,112,101,114>> (* developer *),
    <<109,97,110,97,103,101,114>> (* manager *),
    <<97,110,97,108,121,115,116>> (* analyst *),
    <<115,99,105,101,110,116,105,115,116>> (* scientist *) >>

TitleLines == 5

\* `any(keyword in line.lower() for keyword in [...])`
IsTitleLine(line_lower) == \E j \in 1..Len(title_keywords) : In(title_keywords[j], line_lower)

\* the loop over the stripped lines: the first that names a role
FirstTitleLine(lines, hit) ==
    IF hit = {} THEN <<80,111,115,105,116,105,111,110,32,110,111,116,32,99,108,101,97,114,108,121,32,115,112,101,99,105,102,105,101,100>> (* Position not clearly specified *) ELSE lines[Min(hit)]

TitleAmong(lines) == FirstTitleLine(lines, {k \in 1..Len(lines) : IsTitleLine(lower(lines[k]))})

StripAll(lines) == [k \in 1..Len(lines) |-> strip(lines[k])]

extract_job_title(text) == TitleAmong(StripAll(Prefix(split(text, 10), TitleLines)))

(***************************************************************************)
(* generate_summary                                                        *)
(***************************************************************************)
\* re.split(r'[.!?]+', s)
RECURSIVE re_split(_)
ReSplitAt(s, b) ==
    <<SubSeq(s, 1, b - 1)>> \o re_split(SubSeq(s, b + RunLen(s, b, "[.!?]"), Len(s)))
ReSplitAmong(s, at) == IF at = {} THEN <<s>> ELSE ReSplitAt(s, Min(at))
re_split(s) == ReSplitAmong(s, {i \in 1..Len(s) : InClass("[.!?]", s[i])})

MinSentenceLen == 20
SentencesScanned == 3
SummarySentences == 2
KeySkills == 3

\* a loop over every fragment: sentences instead of sentences[:3]
every_sentence(sentences) == sentences

\* the fragments the loop of generate_summary looks at: sentences[:3]
scanned_sentences(sentences) == Prefix(sentences, SentencesScanned)

\* summary_parts after the loop over the fragments `sentences`
RECURSIVE summary_parts(_)
summary_parts(sentences) ==
    IF Len(sentences) = 0 THEN <<>>
    ELSE (IF Len(strip(sentences[1])) > MinSentenceLen THEN <<strip(sentences[1])>> ELSE <<>>)
            \o summary_parts(Tail(sentences))

\* base_summary
base_summary_of(parts, job_title) ==
    IF Len(parts) > 0 THEN join(<<46,32>> (* .  *), Prefix(parts, SummarySentences))
    ELSE <<76,111,111,107,105,110,103,32,102,111,114,32,97,32>> (* Looking for a  *) \o job_title

\* the summary once base_summary is built
with_key_skills(base_summary, skills) ==
    IF Len(skills) > 0
    THEN base_summary \o <<32,119,105,116,104,32,101,120,112,101,114,116,105,115,101,32,105,110,32>> (*  with expertise in  *) \o join(<<44,32>> (* ,  *), Prefix(skills, KeySkills)) \o <<46>> (* . *)
    ELSE base_summary

generate_summary(text, job_title, skills) ==
    with_key_skills(base_summary_of(summary_parts(scanned_sentences(re_split(text))), job_title), skills)

(***************************************************************************)
(* parse and the wrapper parse_job_description                             *)
(***************************************************************************)
Placeholder == <<123,106,111,98,95,100,101,115,99,114,105,112,116,105,111,110,125>> (* {job_description} *)

\* a guard that looks for the token anywhere in the text, as the wrapper's does
is_missing_anywhere(job_description) == Len(job_description) = 0 \/ In(Placeholder, job_description)

\* the guard of parse: `not job_description or job_description.strip() == "{job_description}"`
is_missing(job_description) == Len(job_description) = 0 \/ strip(job_description) = Placeholder

ParseError == [error |-> "No job description provided. Please replace {job_description} with actual job description text."]

\* the dict parse returns once the components are extracted; an exception
\* of an extractor propagates to the caller
parse_record(job_description, job_title, seniority_level, required_skills, years_of_experience, preferred_location) ==
    IF "raised" \in DOMAIN preferred_location THEN preferred_location
    ELSE [jobTitle |-> job_title,
          seniorityLevel |-> seniority_level,
          requiredSkills |-> required_skills,
          yearsOfExperience |-> years_of_experience,
          preferredLocation |-> preferred_location.value,
          summary |-> generate_summary(job_description, job_title, required_skills)]

\* JobDescriptionParser.parse in a process whose hash salt is `seed`
parse(job_description, seed) ==
    IF is_missing(job_description) THEN ParseError
    ELSE parse_record(job_description,
                      extract_job_title(job_description),
                      extract_seniority_level(job_description),
                      extract_skills(job_description, seed),
                      extract_years_of_experience(job_description),
                      extract_location(job_description))

WrapperError ==
    [error |-> "Please replace {job_description} with actual job description text",
     example |-> [jobTitle |-> "Senior Software Engineer",
                  seniorityLevel |-> "senior",
                  requiredSkills |-> <<"Python", "JavaScript", "React", "AWS">>,
                  yearsOfExperience |-> "5+ years",
                  preferredLocation |-> "San Francisco, CA",
                  summary |-> "Senior Software Engineer position requiring 5+ years experience with modern web technologies."]]

\* the guard of the wrapper: `"{job_description}" in job_description_text`
has_placeholder(job_description_text) == In(Placeholder, job_description_text)

parse_job_description(job_description_text, seed) ==
    IF has_placeholder(job_description_text) THEN WrapperError
    ELSE parse(job_description_text, seed)

(***************************************************************************)
(* Inputs.  A job description is a concatenation of at most MaxChunks      *)
(* phrases of the vocabulary; main() parses its own sample posting.        *)
(***************************************************************************)
MaxChunks == 2
NumHashSeeds == 2

Vocabulary == <<
    <<10>>, (* \n *)
    <<123,106,111,98,95,100,101,115,99,114,105,112,116,105,111,110,125>>, (* {job_description} *)
    <<106,117,110,105,111,114,32,100,101,118,101,108,111,112,101,114,44,32,115,101,110,105,111,114,45,108,101,118,101,108,32,109,101,110,116,111,114,115,104,105,112>>, (* junior developer, senior-level mentorship *)
    <<83,116,97,102,102,32,68,97,116,97,32,83,99,105,101,110,116,105,115,116,44,32,55,43,32,121,101,97,114,115,44,32,98,97,115,101,100,32,105,110,32,65,117,115,116,105,110,44,32,84,88>>, (* Staff Data Scientist, 7+ years, based in Austin, TX *)
    <<68,105,114,101,99,116,111,114,44,32,114,101,109,111,116,101,32,111,114,32,111,110,45,115,105,116,101,44,32,97,116,32,108,101,97,115,116,32,50,32,121,101,97,114,115>>, (* Director, remote or on-site, at least 2 years *)
    <<53,43,32,121,101,97,114,115,32,111,102,32,101,120,112,101,114,105,101,110,99,101>>, (* 5+ years of experience *)
    <<51,45,53,32,121,101,97,114,115,32,101,120,112,101,114,105,101,110,99,101,32,114,101,113,117,105,114,101,100>>, (* 3-5 years experience required *)
    <<72,105,33,32,79,107,63,32,71,111,46,32,109,105,110,105,109,117,109,32,51,32,121,101,97,114,115,32,111,102,32,80,121,116,104,111,110,44,32,68,111,99,107,101,114,32,97,110,100,32,65,87,83>>, (* Hi! Ok? Go. minimum 3 years of Python, Docker and AWS *)
    <<76,111,99,97,116,105,111,110,58,32,82,101,109,111,116,101>>, (* Location: Remote *)
    <<119,101,32,110,101,101,100,32,97,32,103,114,101,97,116,32,99,111,100,101,114>> (* we need a great coder *) >>

RECURSIVE Texts(_)
Texts(n) ==
    IF n = 0 THEN {<<>>}
    ELSE Texts(n - 1) \cup {t \o Vocabulary[k] : t \in Texts(n - 1), k \in 1..Len(Vocabulary)}

Inputs == Texts(MaxChunks)

HashSeeds == 0..(NumHashSeeds - 1)

\* the literal sample_job_description of main(), line by line
sample_job_description ==
    <<10>> (* \n *)
    \o <<32,32,32,32,83,101,110,105,111,114,32,83,111,102,116,119,97,114,101,32,69,110,103,105,110,101,101,114,32,45,32,70,117,108,108,32,83,116,97,99,107,32,68,101,118,101,108,111,112,109,101,110,116,10>> (*     Senior Software Engineer - Full Stack Development\n *)
    \o <<32,32,32,32,10>> (*     \n *)
    \o <<32,32,32,32,87,101,32,97,114,101,32,115,101,101,107,105,110,103,32,97,32,83,101,110,105,111,114,32,83,111,102,116,119,97,114,101,32,69,110,103,105,110,101,101,114,32,116,111,32,106,111,105,110,32,111,117,114,32,100,121,110,97,109,105,99,32,116,101,97,109,46,32,84,104,101,32,105,100,101,97,108,32,99,97,110,100,105,100,97,116,101,32,119,105,108,108,32,104,97,118,101,32,53,43,32,121,101,97,114,115,32,111,102,32,101,120,112,101,114,105,101,110,99,101,32,105,110,32,102,117,108,108,45,115,116,97,99,107,32,100,101,118,101,108,111,112,109,101,110,116,32,97,110,100,32,98,101,32,112,114,111,102,105,99,105,101,110,116,32,105,110,32,109,111,100,101,114,110,32,119,101,98,32,116,101,99,104,110,111,108,111,103,105,101,115,46,10>> (*     We are seeking a Senior Software Engineer to join our dynamic team. The ideal candidate will have 5+ years of experience in full-stack development and be proficient in modern web technologies.\n *)
    \o <<32,32,32,32,10>> (*     \n *)
    \o <<32,32,32,32,82,101,113,117,105,114,101,109,101,110,116,115,58,10>> (*     Requirements:\n *)
    \o <<32,32,32,32,45,32,53,43,32,121,101,97,114,115,32,111,102,32,112,114,111,102,101,115,115,105,111,110,97,108,32,115,111,102,116,119,97,114,101,32,100,101,118,101,108,111,112,109,101,110,116,32,101,120,112,101,114,105,101,110,99,101,10>> (*     - 5+ years of professional software development experience\n *)
    \o <<32,32,32,32,45,32,83,116,114,111,110,103,32,112,114,111,102,105,99,105,101,110,99,121,32,105,110,32,80,121,116,104,111,110,44,32,74,97,118,97,83,99,114,105,112,116,44,32,97,110,100,32,82,101,97,99,116,10>> (*     - Strong proficiency in Python, JavaScript, and React\n *)
    \o <<32,32,32,32,45,32,69,120,112,101,114,105,101,110,99,101,32,119,105,116,104,32,65,87,83,32,99,108,111,117,100,32,115,101,114,118,105,99,101,115,10>> (*     - Experience with AWS cloud services\n *)
    \o <<32,32,32,32,45,32,75,110,111,119,108,101,100,103,101,32,111,102,32,68,111,99,107,101,114,32,97,110,100,32,75,117,98,101,114,110,101,116,101,115,10>> (*     - Knowledge of Docker and Kubernetes\n *)
    \o <<32,32,32,32,45,32,70,97,109,105,108,105,97,114,105,116,121,32,119,105,116,104,32,65,103,105,108,101,32,100,101,118,101,108,111,112,109,101,110,116,32,109,101,116,104,111,100,111,108,111,103,105,101,115,10>> (*     - Familiarity with Agile development methodologies\n *)
    \o <<32,32,32,32,45,32,66,97,99,104,101,108,111,114,39,115,32,100,101,103,114,101,101,32,105,110,32,67,111,109,112,117,116,101,114,32,83,99,105,101,110,99,101,32,111,114,32,114,101,108,97,116,101,100,32,102,105,101,108,100,10>> (*     - Bachelor's degree in Computer Science or related field\n *)
    \o <<32,32,32,32,10>> (*     \n *)
    \o <<32,32,32,32,76,111,99,97,116,105,111,110,58,32,83,97,110,32,70,114,97,110,99,105,115,99,111,44,32,67,65,32,40,72,121,98,114,105,100,32,119,111,114,107,32,97,114,114,97,110,103,101,109,101,110,116,32,97,118,97,105,108,97,98,108,101,41,10>> (*     Location: San Francisco, CA (Hybrid work arrangement available)\n *)
    \o <<32,32,32,32,10>> (*     \n *)
    \o <<32,32,32,32,74,111,105,110,32,111,117,114,32,105,110,110,111,118,97,116,105,118,101,32,116,101,97,109,32,97,110,100,32,104,101,108,112,32,98,117,105,108,100,32,99,117,116,116,105,110,103,45,101,100,103,101,32,97,112,112,108,105,99,97,116,105,111,110,115,32,116,104,97,116,32,115,101,114,118,101,32,109,105,108,108,105,111,110,115,32,111,102,32,117,115,101,114,115,32,119,111,114,108,100,119,105,100,101,46,10>> (*     Join our innovative team and help build cutting-edge applications that serve millions of users worldwide.\n *)
    \o <<32,32,32,32>> (*      *)

(***************************************************************************)
(* The state machine: a process holding a parser is given a text and one   *)
(* operation is invoked on it, once or repeatedly; the process may be      *)
(* restarted in between.                                                   *)
(*   text     - the job description the calls are made on                  *)
(*   hashseed - the string-hash salt of the running process                *)
(*   call     - the operation invoked ("none" before the first call)       *)
(*   ret      - what its last invocation returned: the dict of parse, or   *)
(*              [value |-> v] for an extractor, or [raised |-> exception]  *)
(***************************************************************************)
VARIABLES text, hashseed, call, ret

vars == <<text, hashseed, call, ret>>

Init ==
    /\ text \in Inputs \cup {sample_job_description}
    /\ hashseed \in HashSeeds
    /\ call = "none"
    /\ ret = [none |-> TRUE]

\* the operation `op` is invoked for the first time or again
Invoke(op) ==
    /\ call \in {"none", op}
    /\ call' = op
    /\ UNCHANGED <<text, hashseed>>

\* parser.parse(text)
Parse ==
    /\ Invoke("parse")
    /\ ret' = parse(text, hashseed)

\* parse_job_description(text)
ParseJobDescription ==
    /\ Invoke("parse_job_description")
    /\ ret' = parse_job_description(text, hashseed)

\* main(): parser.parse(sample_job_description)
Main ==
    /\ text = sample_job_description
    /\ Invoke("main")
    /\ ret' = parse(sample_job_description, hashseed)

ExtractSkills ==
    /\ Invoke("extract_skills")
    /\ ret' = [value |-> extract_skills(text, hashseed)]

ExtractSeniorityLevel ==
    /\ Invoke("extract_seniority_level")
    /\ ret' = [value |-> extract_seniority_level(text)]

ExtractYearsOfExperience ==
    /\ Invoke("extract_years_of_experience")
    /\ ret' = [value |-> extract_years_of_experience(text)]

ExtractLocation ==
    /\ Invoke("extract_location")
    /\ ret' = extract_location(text)

ExtractJobTitle ==
    /\ Invoke("extract_job_title")
    /\ ret' = [value |-> extract_job_title(text)]

\* generate_summary(text, job_title, skills) with the arguments parse passes
GenerateSummary ==
    /\ Invoke("generate_summary")
    /\ ret' = [value |-> generate_summary(text, extract_job_title(text), extract_skills(text, hashseed))]

\* the script is run again: a new process, with a new hash salt
Restart ==
    /\ \E s \in HashSeeds : s # hashseed /\ hashseed' = s
    /\ UNCHANGED <<text, call, ret>>

Next ==
    \/ Parse
    \/ ParseJobDescription
    \/ Main
    \/ ExtractSkills
    \/ ExtractSeniorityLevel
    \/ ExtractYearsOfExperience
    \/ ExtractLocation
    \/ ExtractJobTitle
    \/ GenerateSummary
    \/ Restart

Spec == Init /\ [][Next]_vars


(***************************************************************************)
(* Properties                                                              *)
(***************************************************************************)
SixKeys == {"jobTitle", "seniorityLevel", "requiredSkills", "yearsOfExperience", "preferredLocation", "summary"}

IsWhitespace(s) == \A i \in 1..Len(s) : IsSpace(s[i])

Elements(list) == {list[i] : i \in 1..Len(list)}

NotSpecified == <<78,111,116,32,115,112,101,99,105,102,105,101,100>> (* Not specified *)

\* C1: parse returns a record whose only key is `error` for every input that
\* is empty, consists only of whitespace, or is exactly the placeholder token.
C1_ErrorOnly ==
    (call = "parse" /\ (Len(text) = 0 \/ IsWhitespace(text) \/ text = Placeholder))
        => DOMAIN ret = {"error"}

\* C2 as stated: for every input that is non-empty and is not the placeholder
\* token, parse returns a record with exactly the six keys and no `error` key.
C2_SixKeysUnlessToken ==
    (call = "parse" /\ Len(text) > 0 /\ text # Placeholder) => DOMAIN ret = SixKeys

\* C2, amended: for every input that is non-empty and that is not the
\* placeholder token once leading and trailing whitespace is removed, parse
\* returns a record with exactly the six keys and no `error` key; a
\* non-empty input that is the token once stripped gets the error record.
C2_SixKeysUnlessStrippedToken ==
    call = "parse" /\ Len(text) > 0
        => IF strip(text) = Placeholder THEN DOMAIN ret = {"error"} ELSE DOMAIN ret = SixKeys

\* a text with the token inside other text was parsed into a full record
C2_Witness ==
    /\ call = "parse"
    /\ In(Placeholder, text)
    /\ strip(text) # Placeholder
    /\ DOMAIN ret = SixKeys

\* C3: for every input that equals or merely contains the placeholder token,
\* both parse and the wrapper parse_job_description return their error
\* response and extract nothing.
C3_ShortCircuit ==
    In(Placeholder, text) =>
        /\ call = "parse" => ret = ParseError
        /\ call = "parse_job_description" => ret = WrapperError

\* C4: parse never raises, it returns the six-key record or the error
\* record; extract_location returns a string for every text, also when its
\* cue is one of the patterns without a group (remote, hybrid, on-site).
C4_NeverRaises ==
    /\ call \in {"parse", "main"} => (DOMAIN ret = SixKeys \/ DOMAIN ret = {"error"})
    /\ call = "parse_job_description" => DOMAIN ret \in {SixKeys, {"error"}, {"error", "example"}}
    /\ call = "extract_location" => DOMAIN ret = {"value"}

\* extract_location returned on a text whose only cues are group-less ones
C4_Witness ==
    /\ call = "extract_location"
    /\ In(<<114,101,109,111,116,101>> (* remote *), lower(text))
    /\ In(<<111,110,45,115,105,116,101>> (* on-site *), lower(text))
    /\ ~In(<<108,111,99,97,116,105,111,110>> (* location *), lower(text))
    /\ ~In(<<98,97,115,101,100,32,105,110>> (* based in *), lower(text))
    /\ DOMAIN ret = {"value"}

\* two records of parse agree in every field, requiredSkills taken as a set
SameRecord(a, b) ==
    /\ DOMAIN a = DOMAIN b
    /\ IF DOMAIN a = SixKeys
       THEN /\ a.jobTitle = b.jobTitle
            /\ a.seniorityLevel = b.seniorityLevel
            /\ Elements(a.requiredSkills) = Elements(b.requiredSkills)
            /\ a.yearsOfExperience = b.yearsOfExperience
            /\ a.preferredLocation = b.preferredLocation
            /\ a.summary = b.summary
       ELSE a = b

\* C5: any two invocations of parse on the same text, in the same run or in
\* different runs, return records equal in every field (requiredSkills as a
\* set), the summary included.
C5_Deterministic == [][(call = "parse" /\ call' = "parse") => SameRecord(ret, ret')]_vars

\* the documented order of the levels
LevelOrder == <<"junior", "mid", "senior", "manager">>

KeywordsOf(level) == (CHOOSE e \in Elements(seniority_keywords) : e.level = level).keywords

HasCue(level, s) == AnyKeywordIn(KeywordsOf(level), lower(s))

FirstLevel(s, cued) == IF cued = {} THEN "mid" ELSE LevelOrder[Min(cued)]

\* C6: extract_seniority_level returns the first level, in the order junior,
\* mid, senior, manager, one of whose keywords occurs in the lower-cased
\* text, whatever later level also has a keyword there, and mid when no
\* keyword of any level occurs.
C6_FirstLevelInOrder ==
    call = "extract_seniority_level"
        => /\ ret.value \in Elements(LevelOrder)
           /\ ret.value = FirstLevel(text, {k \in 1..Len(LevelOrder) : HasCue(LevelOrder[k], text)})

\* a text with a junior and a senior cue was classified junior
C6_Witness ==
    /\ call = "extract_seniority_level"
    /\ HasCue("junior", text)
    /\ HasCue("senior", text)
    /\ ret.value = "junior"

\* C7: parsing the sample posting of main() yields seniorityLevel "senior",
\* yearsOfExperience "5+ years", requiredSkills containing Python,
\* JavaScript, React, AWS, Docker and Kubernetes, and as preferredLocation
\* the rest of the 'Location:' line.
C7_Sample ==
    call = "main"
        => /\ DOMAIN ret = SixKeys
           /\ ret.seniorityLevel = "senior"
           /\ ret.yearsOfExperience = <<53,43,32,121,101,97,114,115>> (* 5+ years *)
           /\ {<<80,121,116,104,111,110>> (* Python *), <<74,97,118,97,83,99,114,105,112,116>> (* JavaScript *), <<82,101,97,99,116>> (* React *), <<65,87,83>> (* AWS *), <<68,111,99,107,101,114>> (* Docker *), <<75,117,98,101,114,110,101,116,101,115>> (* Kubernetes *)}
                  \subseteq Elements(ret.requiredSkills)
           /\ ret.preferredLocation = <<83,97,110,32,70,114,97,110,99,105,115,99,111,44,32,67,65,32,40,72,121,98,114,105,100,32,119,111,114,107,32,97,114,114,97,110,103,101,109,101,110,116,32,97,118,97,105,108,97,98,108,101,41>> (* San Francisco, CA (Hybrid work arrangement available) *)

\* where each of the four patterns matches in s
RangeHits(s) == {i \in 1..Len(s) : RangeAt(s, i) # {}}
PlusHits(s) == {i \in 1..Len(s) : PlusAt(s, i) # <<>>}
MinimumHits(s) == {i \in 1..Len(s) : MinimumAt(s, i) # <<>>}
AtLeastHits(s) == {i \in 1..Len(s) : AtLeastAt(s, i) # <<>>}

\* "N-M years" when both numbers of the range are captured, else "N+ years"
RangeShape(g) ==
    IF Len(g[2]) > 0 THEN str(int(g[1])) \o <<45>> (* - *) \o str(int(g[2])) \o <<32,121,101,97,114,115>> (*  years *)
    ELSE str(int(g[1])) \o <<43,32,121,101,97,114,115>> (* + years *)

PlusShape(n) == n \o <<43,32,121,101,97,114,115>> (* + years *)

ExpectedYears(s) ==
    IF RangeHits(s) # {} THEN RangeShape(CHOOSE g \in RangeAt(s, Min(RangeHits(s))) : TRUE)
    ELSE IF PlusHits(s) # {} THEN PlusShape(PlusAt(s, Min(PlusHits(s))))
    ELSE IF MinimumHits(s) # {} THEN PlusShape(MinimumAt(s, Min(MinimumHits(s))))
    ELSE IF AtLeastHits(s) # {} THEN PlusShape(AtLeastAt(s, Min(AtLeastHits(s))))
    ELSE NotSpecified

\* y is digits followed by `tail`
NumberThen(y, tail) ==
    /\ Len(y) > Len(tail)
    /\ isdigit(SubSeq(y, 1, Len(y) - Len(tail)))
    /\ SubSeq(y, Len(y) - Len(tail) + 1, Len(y)) = tail

\* y is "N-M years", "N+ years" or "Not specified"
YearsShape(y) ==
    \/ y = NotSpecified
    \/ NumberThen(y, <<43,32,121,101,97,114,115>> (* + years *))
    \/ \E d \in 2..Len(y) : y[d] = 45 /\ isdigit(SubSeq(y, 1, d - 1)) /\ NumberThen(SubSeq(y, d + 1, Len(y)), <<32,121,101,97,114,115>> (*  years *))

\* C8: extract_years_of_experience returns from the first of its four
\* patterns (range ending in 'experience', 'N+ years', 'minimum N years',
\* 'at least N years') that matches anywhere in the text, whatever later
\* patterns match: "N-M years" or "N+ years" for the range, "N+ years" for
\* the others, "Not specified" when none matches; '5+ years of experience'
\* gives "5+ years", '3-5 years experience required' gives "3-5 years".
C8_FirstPatternWins ==
    call = "extract_years_of_experience"
        => /\ ret.value = ExpectedYears(text)
           /\ YearsShape(ret.value)
           /\ text = <<53,43,32,121,101,97,114,115,32,111,102,32,101,120,112,101,114,105,101,110,99,101>> (* 5+ years of experience *) => ret.value = <<53,43,32,121,101,97,114,115>> (* 5+ years *)
           /\ text = <<51,45,53,32,121,101,97,114,115,32,101,120,112,101,114,105,101,110,99,101,32,114,101,113,117,105,114,101,100>> (* 3-5 years experience required *) => ret.value = <<51,45,53,32,121,101,97,114,115>> (* 3-5 years *)

\* the range pattern decided a text in which 'N+ years' matches earlier
C8_Witness ==
    /\ call = "extract_years_of_experience"
    /\ RangeHits(text) # {}
    /\ PlusHits(text) # {}
    /\ Min(PlusHits(text)) < Min(RangeHits(text))
    /\ ret.value = RangeShape(CHOOSE g \in RangeAt(text, Min(RangeHits(text))) : TRUE)
    /\ ret.value # PlusShape(PlusAt(text, Min(PlusHits(text))))

\* a capitalized word, an optional comma and spaces, at position p a
\* two-letter upper-case code
StateCodeAt(s, p) == p + 1 <= Len(s) /\ IsUpper(s[p]) /\ IsUpper(s[p + 1])

StateCodeAfter(s, p) ==
    \/ StateCodeAt(s, p + RunLen(s, p, "\\s"))
    \/ p <= Len(s) /\ s[p] = 44 /\ StateCodeAt(s, p + 1 + RunLen(s, p + 1, "\\s"))

CapitalizedCityAt(s, i, n) ==
    /\ IsUpper(s[i])
    /\ i + n <= Len(s)
    /\ \A j \in 1..n : IsLower(s[i + j])
    /\ StateCodeAfter(s, i + n + 1)

HasCityState(s) == \E i \in 1..Len(s) : \E n \in 1..(Len(s) - i) : CapitalizedCityAt(s, i, n)

\* no 'location' label, no 'based in', no capitalized city with a two-letter
\* upper-case state code, none of remote / hybrid / on-site
NoLocationCue(s) ==
    /\ ~In(<<108,111,99,97,116,105,111,110>> (* location *), lower(s))
    /\ ~In(<<98,97,115,101,100,32,105,110>> (* based in *), lower(s))
    /\ ~In(<<114,101,109,111,116,101>> (* remote *), lower(s))
    /\ ~In(<<104,121,98,114,105,100>> (* hybrid *), lower(s))
    /\ ~In(<<111,110,45,115,105,116,101>> (* on-site *), lower(s))
    /\ ~HasCityState(s)

\* C9: extract_location returns "Not specified" for every text with no
\* location cue, such as the lowercase prose 'we need a great coder'.
C9_NotSpecified ==
    (call = "extract_location" /\ NoLocationCue(text)) => ret = [value |-> NotSpecified]

IsLong(fragment) == Len(strip(fragment)) > MinSentenceLen

Stripped(fragments) == [k \in 1..Len(fragments) |-> strip(fragments[k])]

\* the summary built from the qualifying ones among `fragments`
SummaryFrom(qualifying, job_title, skills) ==
    (IF Len(qualifying) = 0 THEN <<76,111,111,107,105,110,103,32,102,111,114,32,97,32>> (* Looking for a  *) \o job_title
     ELSE IF Len(qualifying) = 1 THEN qualifying[1]
     ELSE qualifying[1] \o <<46,32>> (* .  *) \o qualifying[2])
    \o (IF Len(skills) = 0 THEN <<>>
        ELSE <<32,119,105,116,104,32,101,120,112,101,114,116,105,115,101,32,105,110,32>> (*  with expertise in  *) \o join(<<44,32>> (* ,  *), SubSeq(skills, 1, Min({Len(skills), KeySkills}))) \o <<46>> (* . *))

\* the summaries of `text` over `fragments`, one for each order the skill
\* list can have been in when generate_summary was called
SummariesOver(fragments) ==
    {SummaryFrom(Stripped(SelectSeq(fragments, IsLong)), extract_job_title(text), extract_skills(text, seed)) :
        seed \in HashSeeds}

\* C10 as stated: the base summary is the first two qualifying fragments of
\* the whole text, and the templated sentence only when no fragment of the
\* text qualifies.
C10_WholeText == call = "generate_summary" => ret.value \in SummariesOver(re_split(text))

\* C10, amended: only the first three fragments of the text are considered;
\* the base summary is the first two of them that qualify, joined by '. ',
\* and the templated sentence when none of these three qualifies, whatever
\* later fragments do; a clause naming at most the first three skills
\* follows when the skill list is non-empty.
C10_FirstThreeFragments ==
    call = "generate_summary" => ret.value \in SummariesOver(SubSeq(re_split(text), 1, Min({3, Len(re_split(text))})))

\* a text whose first three fragments are short and whose fourth is long
\* got the templated sentence
C10_Witness ==
    /\ call = "generate_summary"
    /\ Len(re_split(text)) > 3
    /\ \A k \in 1..3 : ~IsLong(re_split(text)[k])
    /\ IsLong(re_split(text)[4])
    /\ LitAt(ret.value, 1, <<76,111,111,107,105,110,103,32,102,111,114,32,97,32>> (* Looking for a  *))
=============================================================================
